---- MODULE Spec2Model ----
(***************************************************************************)
(* Model of utils/checker_generator_v2.py: one run of                      *)
(* create_checkered_pdf_with_margins(output_filename, box_size_mm,         *)
(* margin_cm).                                                             *)
(*                                                                         *)
(* Lengths.  reportlab measures in points (cm = 72/2.54 pt).  Every length *)
(* of the program is a rational multiple of cm, so the model measures in   *)
(* half millimetres: cm is 20 units, mm = cm*0.1 is 2 units, and for the   *)
(* inputs of the model (box sizes in whole millimetres, margins in whole   *)
(* twentieths of a centimetre) every product and quotient below is exact.  *)
(* margin_cm holds the margin in twentieths of a centimetre (1.5 cm = 30). *)
(* The program computes in doubles; for every input of the model its       *)
(* double arithmetic yields the grid that the exact arithmetic yields.     *)
(* (For other inputs an exact fit can round below the integer: box 27 mm   *)
(* with margin 9.15 cm gives 0 columns in doubles.)                        *)
(*                                                                         *)
(* Colours.  A colour is the RGB triple colors.Color(r, g, b), each        *)
(* channel in sixtieths (1.0 = 60), which is exact for whole-degree hues   *)
(* at s = v = 1.0.                                                         *)
(***************************************************************************)
EXTENDS Integers, Sequences, FiniteSets, TLC

\* ---------------------------------------------------------------- bounds
\* margins tried: 3 * (k - 1) twentieths of a cm, k in 0..MaxMarginK
MaxMarginK == 101
\* box sizes tried: 0, 18, 30 and 10*k millimetres, k in 4..MaxBoxTens
MaxBoxTens == 22

\* ------------------------------------------------------- library constants
\* reportlab.lib.units.cm, in model units (half millimetres)
cm == 20
\* reportlab.lib.units.mm = cm * 0.1
mm == cm \div 10
\* reportlab.lib.pagesizes.A4 = (210*mm, 297*mm)
A4 == <<210 * mm, 297 * mm>>

\* ------------------------------------------------------------------ colours
\* hsv_to_reportlab_color(h) with the defaults s = 1.0, v = 1.0:
\* h_normalized = h/360; colorsys.hsv_to_rgb: i = int(h*6), f = h*6 - i,
\* p = v*(1-s), q = v*(1-s*f), t = v*(1-s*(1-f)), then the case on i % 6.
hsv_to_reportlab_color(h) ==
    LET i == (h \div 60) % 6
        f == h % 60
        v == 60
        p == 0
        q == v - f
        t == f
    IN  CASE i = 0 -> <<v, t, p>>
          [] i = 1 -> <<q, v, p>>
          [] i = 2 -> <<p, v, t>>
          [] i = 3 -> <<p, q, v>>
          [] i = 4 -> <<t, p, v>>
          [] i = 5 -> <<v, p, q>>

color1 == hsv_to_reportlab_color(0)
color2 == hsv_to_reportlab_color(90)
color3 == hsv_to_reportlab_color(180)
color4 == hsv_to_reportlab_color(270)

top_left_color == color1
top_right_color == color2
bottom_left_color == color1
bottom_right_color == color2

checkerboard_color1 == color3
checkerboard_color2 == color4

\* reportlab's initial fill and stroke colour of a canvas (black)
DefaultColor == <<0, 0, 0>>

\* ------------------------------------------------------------------- inputs
BoxSizes == {0, 18, 30} \cup {10 * k : k \in 4..MaxBoxTens}
Margins == {3 * (k - 1) : k \in 0..MaxMarginK}

\* -------------------------------------------------------------------- state
VARIABLES
    pc,              \* position in create_checkered_pdf_with_margins
    box_size_mm,     \* argument, millimetres
    margin_cm,       \* argument, twentieths of a centimetre
    MARGIN_SIZE,     \* local
    drawable_width,  \* local
    drawable_height, \* local
    box_size,        \* local
    num_boxes_x,     \* local
    num_boxes_y,     \* local
    row,             \* loop variable of the outer loop
    col,             \* loop variable of the inner loop
    current_color,   \* local
    opens,           \* number of canvas.Canvas objects constructed
    pagesize,        \* pagesize of the canvas c
    fillColor,       \* fill colour of the canvas c
    strokeColor,     \* stroke colour of the canvas c
    rects,           \* the rectangles drawn on the canvas c, in order
    saves,           \* number of calls of c.save()
    output           \* the document written by c.save()

vars == <<pc, box_size_mm, margin_cm, MARGIN_SIZE, drawable_width,
          drawable_height, box_size, num_boxes_x, num_boxes_y, row, col,
          current_color, opens, pagesize, fillColor, strokeColor, rects,
          saves, output>>

inputs == <<box_size_mm, margin_cm>>
locals == <<MARGIN_SIZE, drawable_width, drawable_height, box_size,
            num_boxes_x, num_boxes_y>>
canvas == <<opens, pagesize, fillColor, strokeColor, rects>>

NoOutput == [pagesize |-> <<0, 0>>, rects |-> <<>>]

Init ==
    /\ pc = "start"
    /\ box_size_mm \in BoxSizes
    /\ margin_cm \in Margins
    /\ MARGIN_SIZE = 0
    /\ drawable_width = 0
    /\ drawable_height = 0
    /\ box_size = 0
    /\ num_boxes_x = 0
    /\ num_boxes_y = 0
    /\ row = 0
    /\ col = 0
    /\ current_color = DefaultColor
    /\ opens = 0
    /\ pagesize = <<0, 0>>
    /\ fillColor = DefaultColor
    /\ strokeColor = DefaultColor
    /\ rects = <<>>
    /\ saves = 0
    /\ output = NoOutput

\* ------------------------------------------------------------------ helpers
\* MARGIN_SIZE = margin_cm * cm   (margin_cm is in twentieths)
MarginSize(m) == (m * cm) \div 20

\* box_size = (box_size_mm / 10) * cm
BoxSize(b) == (b * cm) \div 10

\* variants of NumBoxes: rounding up, and counting the magnitude
NumBoxesCeil(drawable, bs) == 0 - ((0 - drawable) \div bs)
NumBoxesAbs(drawable, bs) ==
    IF drawable < 0 THEN (0 - drawable) \div bs ELSE drawable \div bs

\* math.floor(drawable / box_size): \div rounds towards minus infinity
NumBoxes(drawable, bs) == drawable \div bs

\* variant of CellColor: the parity of the row alone
CellColorRowParity(r, c, nx, ny) ==
    IF r = 0 /\ c = 0 THEN bottom_left_color
    ELSE IF r = 0 /\ c = nx - 1 THEN bottom_right_color
    ELSE IF r = ny - 1 /\ c = 0 THEN top_left_color
    ELSE IF r = ny - 1 /\ c = nx - 1 THEN top_right_color
    ELSE IF r % 2 = 0 THEN checkerboard_color1
    ELSE checkerboard_color2

\* the if / elif chain that chooses current_color
CellColor(r, c, nx, ny) ==
    IF r = 0 /\ c = 0 THEN bottom_left_color
    ELSE IF r = 0 /\ c = nx - 1 THEN bottom_right_color
    ELSE IF r = ny - 1 /\ c = 0 THEN top_left_color
    ELSE IF r = ny - 1 /\ c = nx - 1 THEN top_right_color
    ELSE IF (r + c) % 2 = 0 THEN checkerboard_color1
    ELSE checkerboard_color2

\* variant of RectX: the margin is not added
RectXNoMargin(c) == c * box_size

\* x = MARGIN_SIZE + (col * box_size)
RectX(c) == MARGIN_SIZE + (c * box_size)

\* variant of RectY: the row above
RectYRowAbove(r) == MARGIN_SIZE + ((r + 1) * box_size)

\* y = MARGIN_SIZE + (row * box_size)
RectY(r) == MARGIN_SIZE + (r * box_size)

\* ------------------------------------------------------------------ actions
\* lines 57-80: margin, drawable area, box size, grid; a box size of zero
\* makes the division of line 72 raise ZeroDivisionError.
ComputeGrid ==
    /\ pc = "start"
    /\ MARGIN_SIZE' = MarginSize(margin_cm)
    /\ drawable_width' = A4[1] - (2 * MarginSize(margin_cm))
    /\ drawable_height' = A4[2] - (2 * MarginSize(margin_cm))
    /\ box_size' = BoxSize(box_size_mm)
    /\ IF BoxSize(box_size_mm) = 0
       THEN /\ pc' = "raised"
            /\ UNCHANGED <<num_boxes_x, num_boxes_y>>
       ELSE /\ num_boxes_x' = NumBoxes(drawable_width', box_size')
            /\ num_boxes_y' = NumBoxes(drawable_height', box_size')
            /\ pc' = "canvas"
    /\ UNCHANGED <<inputs, row, col, current_color, canvas, saves, output>>

\* line 82: c = canvas.Canvas(output_filename, pagesize=A4)
OpenCanvas ==
    /\ pc = "canvas"
    /\ opens' = opens + 1
    /\ pagesize' = A4
    /\ fillColor' = DefaultColor
    /\ strokeColor' = DefaultColor
    /\ rects' = <<>>
    /\ pc' = "loop"
    /\ UNCHANGED <<inputs, locals, row, col, current_color, saves, output>>

\* lines 86-112: one iteration of the inner loop
DrawCell ==
    /\ pc = "loop"
    /\ row < num_boxes_y
    /\ col < num_boxes_x
    /\ current_color' = CellColor(row, col, num_boxes_x, num_boxes_y)
    /\ fillColor' = current_color'
    /\ strokeColor' = current_color'
    /\ rects' = Append(rects, [x |-> RectX(col), y |-> RectY(row),
                               width |-> box_size, height |-> box_size,
                               stroke |-> 1, fill |-> 1,
                               fillColor |-> fillColor',
                               strokeColor |-> strokeColor'])
    /\ IF col + 1 < num_boxes_x
       THEN /\ col' = col + 1
            /\ row' = row
       ELSE /\ col' = 0
            /\ row' = row + 1
    /\ UNCHANGED <<pc, inputs, locals, opens, pagesize, saves, output>>

\* lines 85-86: an iteration of the outer loop whose inner range is empty
SkipRow ==
    /\ pc = "loop"
    /\ row < num_boxes_y
    /\ num_boxes_x <= 0
    /\ row' = row + 1
    /\ UNCHANGED <<pc, inputs, locals, col, current_color, canvas, saves,
                   output>>

\* variant of Save: saving as soon as the first row is complete
SaveAfterFirstRow ==
    /\ pc = "loop"
    /\ row >= 1 \/ row >= num_boxes_y
    /\ saves' = saves + 1
    /\ output' = [pagesize |-> pagesize, rects |-> rects]
    /\ pc' = "done"
    /\ UNCHANGED <<inputs, locals, row, col, current_color, canvas>>

\* line 114: c.save(), reached when the outer loop is exhausted
Save ==
    /\ pc = "loop"
    /\ row >= num_boxes_y
    /\ saves' = saves + 1
    /\ output' = [pagesize |-> pagesize, rects |-> rects]
    /\ pc' = "done"
    /\ UNCHANGED <<inputs, locals, row, col, current_color, canvas>>

Next ==
    \/ ComputeGrid
    \/ OpenCanvas
    \/ DrawCell
    \/ SkipRow
    \/ Save

Spec == Init /\ [][Next]_vars

\* the function is sequential code: every step that can be taken is taken
FairSpec == Spec /\ WF_vars(Next)

\* =================================================================== claims
\* the grid has been computed (line 73 has been passed without an error)
Computed == pc \in {"canvas", "loop", "done"}

\* n = floor(a / b) for b > 0, stated without division
IsFloor(n, a, b) == n * b <= a /\ a < (n + 1) * b

\* the squares on the canvas
Drawn == {rects[i] : i \in 1..Len(rects)}

\* the cell a square covers
RectCol(q) == (q.x - MARGIN_SIZE) \div box_size
RectRow(q) == (q.y - MARGIN_SIZE) \div box_size

\* the squares whose lower-left corner is the lower-left corner of cell (r, c)
SquareOf(r, c) ==
    {q \in Drawn : /\ q.x = MARGIN_SIZE + (c * box_size)
                   /\ q.y = MARGIN_SIZE + (r * box_size)}

ColoursOf(r, c) == {q.fillColor : q \in SquareOf(r, c)}

IsCornerCell(r, c) ==
    /\ r = 0 \/ r = num_boxes_y - 1
    /\ c = 0 \/ c = num_boxes_x - 1

NonCornerDrawn == {q \in Drawn : ~IsCornerCell(RectRow(q), RectCol(q))}

\* q2 is the right-hand or the upper neighbour of q1
Adjacent(q1, q2) ==
    \/ q1.y = q2.y /\ q2.x = q1.x + box_size
    \/ q1.x = q2.x /\ q2.y = q1.y + box_size

NumCells == IF num_boxes_x > 0 /\ num_boxes_y > 0
            THEN num_boxes_x * num_boxes_y ELSE 0

C2_GridNonNegative ==
    Computed =>
        /\ num_boxes_x >= 0
        /\ num_boxes_y >= 0
        /\ (2 * margin_cm >= 2 * 210) => num_boxes_x = 0
        /\ (2 * margin_cm >= 2 * 297) => num_boxes_y = 0

\* ----------------------------------------------------------------------- C3
\* C3: in a finished grid of at least 2 x 2 cells the four corner squares
\* have four pairwise distinct colours: top-left hue 0, top-right hue 90,
\* bottom-left hue 180, bottom-right hue 270 (row 0 is the bottom row).
C3_CornersDistinct ==
    (pc = "done" /\ num_boxes_x >= 2 /\ num_boxes_y >= 2) =>
        /\ ColoursOf(num_boxes_y - 1, 0) = {hsv_to_reportlab_color(0)}
        /\ ColoursOf(num_boxes_y - 1, num_boxes_x - 1)
              = {hsv_to_reportlab_color(90)}
        /\ ColoursOf(0, 0) = {hsv_to_reportlab_color(180)}
        /\ ColoursOf(0, num_boxes_x - 1) = {hsv_to_reportlab_color(270)}
        /\ Cardinality(ColoursOf(num_boxes_y - 1, 0)
                       \cup ColoursOf(num_boxes_y - 1, num_boxes_x - 1)
                       \cup ColoursOf(0, 0)
                       \cup ColoursOf(0, num_boxes_x - 1)) = 4

\* ----------------------------------------------------------------------- C4
\* C4: in a finished grid with a single row or a single column a cell that
\* meets several corner conditions has the colour of the earliest rule: in a
\* single row, cell (0,0) has the bottom-left colour and cell (0,cols-1) with
\* cols > 1 the bottom-right colour, never a top colour; in a single column
\* with rows > 1, cell (0,0) has the bottom-left colour and cell (rows-1,0)
\* the top-left colour, never the top-right colour.
C4_FirstRuleWins ==
    (pc = "done" /\ num_boxes_x >= 1 /\ num_boxes_y >= 1) =>
        /\ num_boxes_y = 1 =>
              /\ ColoursOf(0, 0) = {bottom_left_color}
              /\ ColoursOf(0, 0) \cap {top_left_color, top_right_color} = {}
              /\ num_boxes_x > 1 =>
                    /\ ColoursOf(0, num_boxes_x - 1) = {bottom_right_color}
                    /\ ColoursOf(0, num_boxes_x - 1)
                          \cap {top_left_color, top_right_color} = {}
        /\ (num_boxes_x = 1 /\ num_boxes_y > 1) =>
              /\ ColoursOf(0, 0) = {bottom_left_color}
              /\ ColoursOf(num_boxes_y - 1, 0) = {top_left_color}
              /\ top_right_color \notin ColoursOf(num_boxes_y - 1, 0)

\* ----------------------------------------------------------------------- C5
\* C5: every square of a non-corner cell has checkerboard colour A when
\* row + col is even and checkerboard colour B when it is odd, A and B
\* differ, and two squares of non-corner cells that are neighbours in a row
\* or in a column never have the same colour.
C5_Alternation ==
    /\ checkerboard_color1 # checkerboard_color2
    /\ \A q \in NonCornerDrawn :
          q.fillColor = IF (RectRow(q) + RectCol(q)) % 2 = 0
                        THEN checkerboard_color1
                        ELSE checkerboard_color2
    /\ LET nc == NonCornerDrawn
       IN  \A q1 \in nc :
              \A q2 \in nc :
                 Adjacent(q1, q2) => q1.fillColor # q2.fillColor

C5_Witness ==
    /\ pc = "loop"
    /\ num_boxes_x >= 4
    /\ num_boxes_y >= 3
    /\ Len(rects) = 2 * num_boxes_x

\* ----------------------------------------------------------------------- C6
\* C6: the square of a non-corner cell is red (hue 0) when row + col is even
\* and cyan (hue 180) when it is odd.
C6_RedCyanCheckerboard ==
    \A q \in NonCornerDrawn :
        q.fillColor = IF (RectRow(q) + RectCol(q)) % 2 = 0
                      THEN hsv_to_reportlab_color(0)
                      ELSE hsv_to_reportlab_color(180)

C8_BlankPage ==
    (/\ box_size_mm > 0
     /\ \/ 2 * MarginSize(margin_cm) >= A4[1]
        \/ 2 * MarginSize(margin_cm) >= A4[2]) =>
        /\ pc # "raised"
        /\ rects = <<>>
        /\ pc = "done" => output = [pagesize |-> A4, rects |-> <<>>]

C8_Witness ==
    /\ pc = "done"
    /\ box_size_mm > 0
    /\ 2 * MarginSize(margin_cm) >= A4[1]
    /\ num_boxes_y > 0
    /\ saves = 1
    /\ output = [pagesize |-> A4, rects |-> <<>>]

\* ----------------------------------------------------------------------- C9
C9_Inv ==
    /\ opens <= 1
    /\ saves <= 1
    /\ rects # <<>> => opens = 1
    /\ saves = 1 <=> pc = "done"
    /\ pc = "done" => (opens = 1 /\ Len(rects) = NumCells /\ output.rects = rects)
    /\ \A i \in 1..Len(rects) :
          /\ rects[i].x = RectX((i - 1) % num_boxes_x)
          /\ rects[i].y = RectY((i - 1) \div num_boxes_x)

C9_Step ==
    /\ pc # "done"
    /\ rects' # rects => (opens = 1 /\ saves = 0 /\ saves' = 0)

\* C9: a run with a positive box size terminates; it opens exactly one
\* document, before any square is drawn, and saves it exactly once, after
\* the last square; nothing happens after the save; the i-th square drawn is
\* the one of cell ((i-1) div cols, (i-1) mod cols), i.e. row-major order.
C9_OpenDrawSave ==
    /\ []C9_Inv
    /\ [][C9_Step]_vars
    /\ (pc = "start" /\ box_size_mm > 0) ~> (pc = "done")

C9_Witness ==
    /\ pc = "done"
    /\ opens = 1
    /\ saves = 1
    /\ num_boxes_x >= 2
    /\ num_boxes_y >= 2
    /\ Len(rects) = num_boxes_x * num_boxes_y

\* ---------------------------------------------------------------------- C10
\* C10: with a non-negative margin and a positive box size every square lies
\* inside the drawable area, two squares never overlap in their interiors,
\* and the squares of the saved page cover every cell of the region from
\* (margin, margin) to (margin + cols*boxSize, margin + rows*boxSize).
C10_InsideAndTiling ==
    (margin_cm >= 0 /\ box_size_mm > 0) =>
        LET M == MarginSize(margin_cm)
            B == BoxSize(box_size_mm)
        IN  /\ \A q \in Drawn :
                  /\ M <= q.x
                  /\ q.x + q.width <= A4[1] - M
                  /\ M <= q.y
                  /\ q.y + q.height <= A4[2] - M
            /\ \A i \in 1..Len(rects) :
                  \A j \in (i + 1)..Len(rects) :
                     \/ rects[i].x + rects[i].width <= rects[j].x
                     \/ rects[j].x + rects[j].width <= rects[i].x
                     \/ rects[i].y + rects[i].height <= rects[j].y
                     \/ rects[j].y + rects[j].height <= rects[i].y
            /\ pc = "done" =>
                  \A r \in 0..(num_boxes_y - 1) :
                     \A c \in 0..(num_boxes_x - 1) :
                        \E q \in Drawn : /\ q.x = M + (c * B)
                                         /\ q.y = M + (r * B)
                                         /\ q.width = B
                                         /\ q.height = B

C10_Witness ==
    /\ pc = "done"
    /\ margin_cm > 0
    /\ Len(rects) >= 4
    /\ drawable_width > num_boxes_x * box_size
    /\ drawable_height > num_boxes_y * box_size

====
